---- MODULE Spec2Model ----
(***************************************************************************)
(* The dissociation service of app.py: the lazily created database handle *)
(* (get_engine), the two dissociation endpoints (dissociate_by_terms and  *)
(* dissociate_by_coordinates) and the two tables they read.               *)
(*                                                                         *)
(* Text (URL parameters, column values, response keys) is a sequence of   *)
(* one-character strings, so that str.replace, LOWER, str.split, float    *)
(* and f-string concatenation are computed character by character.        *)
(***************************************************************************)
EXTENDS Integers, Sequences, FiniteSets, TLC

VARIABLES
    annotations_terms,  \* rows of ns.annotations_terms: [study_id, term]
    coordinates,        \* rows of ns.coordinates: [study_id, geom]
    DB_URL,             \* the environment variable read by get_engine
    _engine,            \* the module-level handle (app.py line 8)
    created,            \* number of create_engine calls made in the process
    th                  \* per worker thread: position and locals of its request

vars == <<annotations_terms, coordinates, DB_URL, _engine, created, th>>

----------------------------------------------------------------------------
(* Bounds *)

MaxStudy == 2
NThreads == 2

StudyIds == 1..MaxStudy
Threads == 1..NThreads

----------------------------------------------------------------------------
(* Text *)

RECURSIVE Replace(_, _, _)
\* str.replace(old, new) for one-character old and new
Replace(s, old, new) ==
    IF s = <<>> THEN <<>>
    ELSE <<IF Head(s) = old THEN new ELSE Head(s)>> \o Replace(Tail(s), old, new)

\* the letters of the model's alphabet that have an upper-case form
LowerCh(c) ==
    CASE c = "X" -> "x"
      [] c = "N" -> "n"
      [] c = "O" -> "o"
      [] c = "T" -> "t"
      [] OTHER -> c

\* SQL LOWER(...)
Lower(s) == [i \in DOMAIN s |-> LowerCh(s[i])]

RECURSIVE Split(_, _)
\* str.split(sep): the pieces between the separators, empty pieces kept
Split(s, sep) ==
    IF s = <<>> THEN << <<>> >>
    ELSE LET rest == Split(Tail(s), sep) IN
         IF Head(s) = sep THEN << <<>> >> \o rest
         ELSE << <<Head(s)>> \o Head(rest) >> \o Tail(rest)

Digits == {"0", "1", "2", "6", "8"}

DigitVal(c) ==
    CASE c = "0" -> 0 [] c = "1" -> 1 [] c = "2" -> 2 [] c = "6" -> 6 [] c = "8" -> 8

RECURSIVE DigitsVal(_, _)
DigitsVal(s, acc) ==
    IF s = <<>> THEN acc ELSE DigitsVal(Tail(s), 10 * acc + DigitVal(Head(s)))

\* float(text) on the model's alphabet (digits, "-", letters): an optional
\* sign followed by at least one digit; anything else raises ValueError
FloatRaises(s) ==
    LET body == IF s # <<>> /\ Head(s) = "-" THEN Tail(s) ELSE s IN
    body = <<>> \/ \E i \in DOMAIN body : body[i] \notin Digits

\* the value of float(text), kept as the integer the float equals
Float(s) ==
    IF Head(s) = "-" THEN 0 - DigitsVal(Tail(s), 0) ELSE DigitsVal(s, 0)

\* x, y, z = map(float, coords.split("_")): unpacking pulls the items one
\* after the other (float of each), asks for a fourth to see that there is
\* none, and raises ValueError on a failed float, on too few and on too many
ParseRaises(coords) ==
    LET parts == Split(coords, "_") IN
    Len(parts) # 3 \/ \E i \in DOMAIN parts : FloatRaises(parts[i])

ParseCoords(coords) ==
    LET parts == Split(coords, "_") IN
    <<Float(parts[1]), Float(parts[2]), Float(parts[3])>>

\* f"{a}_not_{b}"
NotKey(a, b) == a \o <<"_", "n", "o", "t", "_">> \o b

\* a Python dict display {k1: v1, k2: v2}: a later entry with an equal key
\* replaces the earlier one
DictLiteral(k1, v1, k2, v2) == [k \in {k1, k2} |-> IF k = k2 THEN v2 ELSE v1]

----------------------------------------------------------------------------
(* Result sets *)

RECURSIVE SetToSeq(_)
\* the rows of a result set, one after the other (fetchall before ORDER BY)
SetToSeq(S) ==
    IF S = {} THEN <<>>
    ELSE LET r == CHOOSE r \in S : TRUE IN <<r>> \o SetToSeq(S \ {r})

\* SELECT study_id: one value per selected row
ProjectStudyId(rows) == [i \in DOMAIN rows |-> rows[i].study_id]

RECURSIVE Distinct(_)
\* SELECT DISTINCT: equal values kept once
Distinct(s) ==
    IF s = <<>> THEN <<>>
    ELSE LET rest == Distinct(Tail(s)) IN
         IF \E i \in DOMAIN rest : rest[i] = Head(s) THEN rest ELSE <<Head(s)>> \o rest

RECURSIVE Insert(_, _)
Insert(x, s) ==
    IF s = <<>> THEN <<x>>
    ELSE IF x <= Head(s) THEN <<x>> \o s
    ELSE <<Head(s)>> \o Insert(x, Tail(s))

RECURSIVE OrderBy(_)
\* ORDER BY study_id (ascending)
OrderBy(s) == IF s = <<>> THEN <<>> ELSE Insert(Head(s), OrderBy(Tail(s)))

----------------------------------------------------------------------------
(* The queries of dissociate_by_terms *)

\* SELECT study_id FROM ns.annotations_terms WHERE LOWER(term) = LOWER(:t)
TermSubquery(table, t) == {r.study_id : r \in {q \in table : Lower(q.term) = Lower(t)}}

\* SELECT DISTINCT a1.study_id ... WHERE LOWER(a1.term) = LOWER(:t_in)
\*   AND a1.study_id NOT IN (subquery :t_out) ORDER BY a1.study_id
TermDifference(table, t_in, t_out) ==
    LET hit == {a1 \in table : /\ Lower(a1.term) = Lower(t_in)
                               /\ a1.study_id \notin TermSubquery(table, t_out)}
    IN OrderBy(Distinct(ProjectStudyId(SetToSeq(hit))))

\* params: [term_a, term_b], as bound by conn.execute
a_not_b_query(table, params) == TermDifference(table, params.term_a, params.term_b)

b_not_a_query(table, params) == TermDifference(table, params.term_b, params.term_a)

\* the bind parameters of both executions
TermParams(term_a, term_b) ==
    [term_a |-> Replace(term_a, "_", " "), term_b |-> Replace(term_b, "_", " ")]

\* the body handed to jsonify on success
TermsBody(term_a, term_b, a_not_b_results, b_not_a_results) ==
    [query |-> [term_a |-> Replace(term_a, "_", " "),
                term_b |-> Replace(term_b, "_", " ")],
     results |-> DictLiteral(
         NotKey(term_a, term_b),
         [count |-> Len(a_not_b_results), studies |-> a_not_b_results],
         NotKey(term_b, term_a),
         [count |-> Len(b_not_a_results), studies |-> b_not_a_results])]

----------------------------------------------------------------------------
(* The queries of dissociate_by_coordinates *)

tolerance == 8

\* ST_DWithin with the comparison turned round: the points at least tol away
ST_DWithinOutside(geom, p, tol) ==
    (geom[1] - p[1]) * (geom[1] - p[1]) + (geom[2] - p[2]) * (geom[2] - p[2]) >= tol * tol

\* ST_DWithin(geom, ST_SetSRID(ST_MakePoint(x, y, z), 4326), tol) on two
\* geometry values: PostGIS compares the planar (x, y) distance, the z
\* ordinate takes no part (the 3-D test is ST_3DDWithin). Squares are
\* compared so that the values stay integers; the boundary is included.
ST_DWithin(geom, p, tol) ==
    (geom[1] - p[1]) * (geom[1] - p[1]) + (geom[2] - p[2]) * (geom[2] - p[2]) <= tol * tol

\* SELECT study_id FROM ns.coordinates WHERE ST_DWithin(geom, :p, :tol)
CoordSubquery(table, p, tol) == {r.study_id : r \in {q \in table : ST_DWithin(q.geom, p, tol)}}

\* SELECT DISTINCT c1.study_id ... WHERE ST_DWithin(c1.geom, :p_in, :tolerance1)
\*   AND c1.study_id NOT IN (subquery :p_out, :tolerance2) ORDER BY c1.study_id
CoordDifference(table, p_in, p_out, tolerance1, tolerance2) ==
    LET hit == {c1 \in table : /\ ST_DWithin(c1.geom, p_in, tolerance1)
                               /\ c1.study_id \notin CoordSubquery(table, p_out, tolerance2)}
    IN OrderBy(Distinct(ProjectStudyId(SetToSeq(hit))))

\* params: [p1, p2, tolerance1, tolerance2], as bound by conn.execute
coords_a_not_b_query(table, params) ==
    CoordDifference(table, params.p1, params.p2, params.tolerance1, params.tolerance2)

coords_b_not_a_query(table, params) ==
    CoordDifference(table, params.p2, params.p1, params.tolerance1, params.tolerance2)

CoordParams(p1, p2) ==
    [p1 |-> p1, p2 |-> p2, tolerance1 |-> tolerance, tolerance2 |-> tolerance]

CoordsBody(p1, p2, a_not_b_results, b_not_a_results) ==
    [query |-> [coords_a |-> p1, coords_b |-> p2, tolerance_mm |-> tolerance],
     results |-> DictLiteral(
         "coords_a_not_b",
         [coordinates |-> p1, count |-> Len(a_not_b_results), studies |-> a_not_b_results],
         "coords_b_not_a",
         [coordinates |-> p2, count |-> Len(b_not_a_results), studies |-> b_not_a_results])]

----------------------------------------------------------------------------
(* Exceptions and responses *)

\* what a store call (create_engine, begin, execute) can raise; the second
\* is a subclass of ValueError
StoreErrors == {"OperationalError", "UnicodeDecodeError"}

\* isinstance(e, ValueError)
IsValueError(e) == e \in {"ValueError", "UnicodeDecodeError"}

InvalidFormat == "Invalid coordinate format. Use x_y_z format (e.g., '0_-52_26')"

\* except Exception as e: return jsonify({"error": str(e)}), 500
TermsExcept(e) == [status |-> 500, body |-> [error |-> e]]

\* except ValueError: ..., 400 / except Exception as e: ..., 500
CoordsExcept(e) ==
    IF IsValueError(e) THEN [status |-> 400, body |-> [error |-> InvalidFormat]]
    ELSE [status |-> 500, body |-> [error |-> e]]

----------------------------------------------------------------------------
(* The database handle *)

NoUrl == [scheme |-> "", rest |-> ""]

None == [id |-> 0, url |-> NoUrl]

DbUrls == {NoUrl, [scheme |-> "postgres", rest |-> "db"], [scheme |-> "postgresql", rest |-> "db"]}

\* if db_url.startswith("postgres://"): db_url = "postgresql://" + db_url[len("postgres://"):]
NormalizeUrl(db_url) ==
    IF db_url.scheme = "postgres" THEN [db_url EXCEPT !.scheme = "postgresql"] ELSE db_url

----------------------------------------------------------------------------
(* Worker threads *)

NoResponse == [status |-> 0, body |-> [error |-> ""]]

IdleThread ==
    [pc |-> "idle", endpoint |-> "none",
     term_a |-> <<>>, term_b |-> <<>>, coords_a |-> <<>>, coords_b |-> <<>>,
     p1 |-> <<>>, p2 |-> <<>>,
     db_url |-> NoUrl, eng |-> None,
     a_not_b_results |-> <<>>, b_not_a_results |-> <<>>,
     engine_calls |-> 0, executes |-> 0,
     response |-> NoResponse]

\* the except clauses of the endpoint the thread is serving
Except(r, e) == IF r.endpoint = "terms" THEN TermsExcept(e) ELSE CoordsExcept(e)

\* an exception e leaves the try block of thread t's handler
Raise(t, e) ==
    th' = [th EXCEPT ![t].pc = "done", ![t].response = Except(th[t], e)]

\* GET /dissociate/terms/<term_a>/<term_b>: the handler enters its try block
\* and calls get_engine
StartTerms(t, inputs) ==
    /\ th[t].pc = "idle"
    /\ \E term_a \in inputs, term_b \in inputs :
         th' = [th EXCEPT ![t] = [IdleThread EXCEPT
                    !.pc = "ge_check", !.endpoint = "terms",
                    !.term_a = term_a, !.term_b = term_b, !.engine_calls = 1]]
    /\ UNCHANGED <<annotations_terms, coordinates, DB_URL, _engine, created>>

\* StartCoords with get_engine called before the strings are parsed
StartCoordsEngineFirst(t, inputs) ==
    /\ th[t].pc = "idle"
    /\ \E coords_a \in inputs, coords_b \in inputs :
         LET r == [IdleThread EXCEPT !.endpoint = "coords", !.engine_calls = 1,
                       !.coords_a = coords_a, !.coords_b = coords_b] IN
         IF ParseRaises(coords_a) \/ ParseRaises(coords_b)
         THEN th' = [th EXCEPT ![t] = [r EXCEPT !.pc = "done",
                                          !.response = Except(r, "ValueError")]]
         ELSE th' = [th EXCEPT ![t] = [r EXCEPT !.pc = "ge_check",
                                          !.p1 = ParseCoords(coords_a),
                                          !.p2 = ParseCoords(coords_b)]]
    /\ UNCHANGED <<annotations_terms, coordinates, DB_URL, _engine, created>>

\* GET /dissociate/locations/<coords_a>/<coords_b>: both strings are parsed,
\* then get_engine is called
StartCoords(t, inputs) ==
    /\ th[t].pc = "idle"
    /\ \E coords_a \in inputs, coords_b \in inputs :
         LET r == [IdleThread EXCEPT !.endpoint = "coords",
                       !.coords_a = coords_a, !.coords_b = coords_b] IN
         IF ParseRaises(coords_a) \/ ParseRaises(coords_b)
         THEN th' = [th EXCEPT ![t] = [r EXCEPT !.pc = "done",
                                          !.response = Except(r, "ValueError")]]
         ELSE th' = [th EXCEPT ![t] = [r EXCEPT !.pc = "ge_check",
                                          !.p1 = ParseCoords(coords_a),
                                          !.p2 = ParseCoords(coords_b),
                                          !.engine_calls = 1]]
    /\ UNCHANGED <<annotations_terms, coordinates, DB_URL, _engine, created>>

\* get_engine, line 12: if _engine is not None
GeCheck(t) ==
    /\ th[t].pc = "ge_check"
    /\ th' = [th EXCEPT ![t].pc = IF _engine # None THEN "ge_return" ELSE "ge_getenv"]
    /\ UNCHANGED <<annotations_terms, coordinates, DB_URL, _engine, created>>

\* get_engine, lines 14-19: read DB_URL, raise when it is missing, normalise
GeGetenv(t) ==
    /\ th[t].pc = "ge_getenv"
    /\ IF DB_URL = NoUrl
       THEN Raise(t, "RuntimeError")
       ELSE th' = [th EXCEPT ![t].pc = "ge_create", ![t].db_url = NormalizeUrl(DB_URL)]
    /\ UNCHANGED <<annotations_terms, coordinates, DB_URL, _engine, created>>

\* get_engine, lines 20-23: create_engine(db_url, ...) builds a new handle
\* and the result is stored in the global
GeCreate(t) ==
    /\ th[t].pc = "ge_create"
    /\ \/ /\ created' = created + 1
          /\ _engine' = [id |-> created + 1, url |-> th[t].db_url]
          /\ th' = [th EXCEPT ![t].pc = "ge_return"]
       \/ /\ \E e \in StoreErrors : Raise(t, e)
          /\ UNCHANGED <<_engine, created>>
    /\ UNCHANGED <<annotations_terms, coordinates, DB_URL>>

\* get_engine, lines 13 and 24: return _engine
GeReturn(t) ==
    /\ th[t].pc = "ge_return"
    /\ th' = [th EXCEPT ![t].pc = "begin", ![t].eng = _engine]
    /\ UNCHANGED <<annotations_terms, coordinates, DB_URL, _engine, created>>

\* with eng.begin() as conn: conn.execute(text("SET search_path TO ns, public;"))
Begin(t) ==
    /\ th[t].pc = "begin"
    /\ \/ th' = [th EXCEPT ![t].pc = "q1", ![t].executes = @ + 1]
       \/ \E e \in StoreErrors : Raise(t, e)
    /\ UNCHANGED <<annotations_terms, coordinates, DB_URL, _engine, created>>

\* a_not_b_results = conn.execute(a_not_b_query, {...}).fetchall()
QueryANotB(t) ==
    /\ th[t].pc = "q1"
    /\ \/ th' = [th EXCEPT ![t].pc = "q2", ![t].executes = @ + 1,
                    ![t].a_not_b_results =
                        IF th[t].endpoint = "terms"
                        THEN a_not_b_query(annotations_terms,
                                           TermParams(th[t].term_a, th[t].term_b))
                        ELSE coords_a_not_b_query(coordinates,
                                                  CoordParams(th[t].p1, th[t].p2))]
       \/ \E e \in StoreErrors : Raise(t, e)
    /\ UNCHANGED <<annotations_terms, coordinates, DB_URL, _engine, created>>

\* b_not_a_results = conn.execute(b_not_a_query, {...}).fetchall()
QueryBNotA(t) ==
    /\ th[t].pc = "q2"
    /\ \/ th' = [th EXCEPT ![t].pc = "respond", ![t].executes = @ + 1,
                    ![t].b_not_a_results =
                        IF th[t].endpoint = "terms"
                        THEN b_not_a_query(annotations_terms,
                                           TermParams(th[t].term_a, th[t].term_b))
                        ELSE coords_b_not_a_query(coordinates,
                                                  CoordParams(th[t].p1, th[t].p2))]
       \/ \E e \in StoreErrors : Raise(t, e)
    /\ UNCHANGED <<annotations_terms, coordinates, DB_URL, _engine, created>>

\* return jsonify({...}) (status 200)
Respond(t) ==
    /\ th[t].pc = "respond"
    /\ th' = [th EXCEPT ![t].pc = "done",
                 ![t].response =
                     [status |-> 200,
                      body |-> IF th[t].endpoint = "terms"
                               THEN TermsBody(th[t].term_a, th[t].term_b,
                                              th[t].a_not_b_results, th[t].b_not_a_results)
                               ELSE CoordsBody(th[t].p1, th[t].p2,
                                               th[t].a_not_b_results, th[t].b_not_a_results)]]
    /\ UNCHANGED <<annotations_terms, coordinates, DB_URL, _engine, created>>

\* the response has been sent; the worker takes the next request
Finish(t) ==
    /\ th[t].pc = "done"
    /\ th' = [th EXCEPT ![t] = IdleThread]
    /\ UNCHANGED <<annotations_terms, coordinates, DB_URL, _engine, created>>

\* the steps of a request once its handler has started
Step(t) ==
    \/ GeCheck(t) \/ GeGetenv(t) \/ GeCreate(t) \/ GeReturn(t)
    \/ Begin(t) \/ QueryANotB(t) \/ QueryBNotA(t) \/ Respond(t) \/ Finish(t)

----------------------------------------------------------------------------
(* Inputs *)

\* request terms: "x", "X", "x_not_x", "_"
TermInputs ==
    { <<"x">>, <<"X">>, <<"x", "_", "n", "o", "t", "_", "x">>, <<"_">> }

\* values of the term column: "x", "X", "x not x"
DbTerms ==
    { <<"x">>, <<"X">>, <<"x", " ", "n", "o", "t", " ", "x">> }

TermRows == [study_id : StudyIds, term : DbTerms]

\* request coordinates: "0_0_0", "-8_0_0", "1_2", "0_x_0", "0_0_0_0", "0__0"
CoordInputs ==
    { <<"0", "_", "0", "_", "0">>,
      <<"-", "8", "_", "0", "_", "0">>,
      <<"1", "_", "2">>,
      <<"0", "_", "x", "_", "0">>,
      <<"0", "_", "0", "_", "0", "_", "0">>,
      <<"0", "_", "_", "0">> }

\* points of the geom column
Geoms == { <<0, 0, 0>>, <<6, 0, 0>> }

CoordRows == [study_id : StudyIds, geom : Geoms]

----------------------------------------------------------------------------
(* Specifications *)

\* one worker serving term requests over a table that does not change
Init ==
    /\ annotations_terms \in SUBSET TermRows
    /\ coordinates = {}
    /\ DB_URL \in DbUrls
    /\ _engine = None
    /\ created = 0
    /\ th = [t \in Threads |-> IdleThread]

Next == StartTerms(1, TermInputs) \/ Step(1)

Spec == Init /\ [][Next]_vars

\* one worker serving coordinate requests over a table that does not change
InitCoords ==
    /\ annotations_terms = {}
    /\ coordinates \in SUBSET CoordRows
    /\ DB_URL \in DbUrls
    /\ _engine = None
    /\ created = 0
    /\ th = [t \in Threads |-> IdleThread]

NextCoords == StartCoords(1, CoordInputs) \/ Step(1)

SpecCoords == InitCoords /\ [][NextCoords]_vars

\* the term rows the concurrent specifications start from
WorkerRows == {r \in TermRows : r.term = Lower(r.term)}

\* request terms of the concurrent specifications: "x", "x_not_x"
WorkerInputs == {w \in TermInputs : w = Lower(w) /\ \E i \in DOMAIN w : w[i] # "_"}

\* every worker thread serving term requests, in any interleaving, over a
\* table that does not change
InitWorkers ==
    /\ annotations_terms \in SUBSET WorkerRows
    /\ coordinates = {}
    /\ DB_URL \in DbUrls
    /\ _engine = None
    /\ created = 0
    /\ th = [t \in Threads |-> IdleThread]

NextWorkers == \E t \in Threads : StartTerms(t, WorkerInputs) \/ Step(t)

SpecWorkers == InitWorkers /\ [][NextWorkers]_vars

\* another client of the database commits the insertion or the deletion of
\* a row of ns.annotations_terms
Commit ==
    /\ \E row \in WorkerRows :
         annotations_terms' = IF row \in annotations_terms
                              THEN annotations_terms \ {row}
                              ELSE annotations_terms \cup {row}
    /\ UNCHANGED <<coordinates, DB_URL, _engine, created, th>>

\* one worker serving term requests while other clients write: under the
\* default isolation of the engine (READ COMMITTED, none is requested at
\* lines 20-23) each statement of the transaction reads the rows committed
\* when it starts
NextWriter == StartTerms(1, WorkerInputs) \/ Step(1) \/ Commit

SpecWriter == InitWorkers /\ [][NextWriter]_vars

----------------------------------------------------------------------------
(* Vocabulary of the properties *)

Range(s) == {s[i] : i \in DOMAIN s}

Ascending(s) == \A i, j \in DOMAIN s : i < j => s[i] < s[j]

\* thread t has answered a request to endpoint ep with status 200
Done200(t, ep) ==
    th[t].pc = "done" /\ th[t].endpoint = ep /\ th[t].response.status = 200

\* the study ids annotated with the term, compared without regard to case
\* after the term's underscores are replaced by spaces
StudiesOf(term) ==
    {r.study_id : r \in {q \in annotations_terms :
                            Lower(q.term) = Lower(Replace(term, "_", " "))}}

\* the term is empty or only whitespace once underscores are spaces
Blank(term) == \A i \in DOMAIN term : term[i] \in {"_", " "}

\* the text is an optional sign followed by digits
Numeric(c) ==
    /\ c # <<>>
    /\ \A i \in DOMAIN c : c[i] \in Digits \/ (i = 1 /\ c[i] = "-")
    /\ \E i \in DOMAIN c : c[i] \in Digits

\* the text is three numeric components separated by two underscores
Triple(s) ==
    \E i, j \in DOMAIN s :
        /\ i < j
        /\ {k \in DOMAIN s : s[k] = "_"} = {i, j}
        /\ Numeric(SubSeq(s, 1, i - 1))
        /\ Numeric(SubSeq(s, i + 1, j - 1))
        /\ Numeric(SubSeq(s, j + 1, Len(s)))

\* tolerances the monotonicity properties compare
Tolerances == {0, tolerance, 2 * tolerance}

\* the studies within tol of point p
Within(p, tol) == CoordSubquery(coordinates, p, tol)

\* the a_not_b result of thread t's coordinates at tolerance tol: the list
\* of its response at the tolerance the handler uses, the same query at
\* another tolerance otherwise
ANotBAt(t, tol) ==
    IF tol = tolerance
    THEN Range(th[t].response.body.results["coords_a_not_b"].studies)
    ELSE Range(coords_a_not_b_query(coordinates,
                   [p1 |-> th[t].p1, p2 |-> th[t].p2,
                    tolerance1 |-> tol, tolerance2 |-> tol]))

----------------------------------------------------------------------------
(* Properties *)

\* C1: a successful dissociate_by_terms response holds, as the first
\* direction, exactly the studies of set_a minus set_b and, as the second,
\* exactly those of set_b minus set_a, each list ascending without
\* duplicates and each count equal to its list's length.
C1_TermsDifference ==
    \A t \in Threads : Done200(t, "terms") =>
        LET res == th[t].response.body.results
            kab == NotKey(th[t].term_a, th[t].term_b)
            kba == NotKey(th[t].term_b, th[t].term_a)
            A == StudiesOf(th[t].term_a)
            B == StudiesOf(th[t].term_b)
        IN /\ Range(res[kab].studies) = A \ B
           /\ Range(res[kba].studies) = B \ A
           /\ Ascending(res[kab].studies) /\ Ascending(res[kba].studies)
           /\ res[kab].count = Len(res[kab].studies)
           /\ res[kba].count = Len(res[kba].studies)

\* C1, restricted to the requests whose two labels differ: the same
\* statement, for the responses that hold two entries.
C1_TermsDifferenceTwoLabels ==
    \A t \in Threads :
        (Done200(t, "terms")
           /\ NotKey(th[t].term_a, th[t].term_b) # NotKey(th[t].term_b, th[t].term_a)) =>
        LET res == th[t].response.body.results
            kab == NotKey(th[t].term_a, th[t].term_b)
            kba == NotKey(th[t].term_b, th[t].term_a)
            A == StudiesOf(th[t].term_a)
            B == StudiesOf(th[t].term_b)
        IN /\ Range(res[kab].studies) = A \ B
           /\ Range(res[kba].studies) = B \ A
           /\ Ascending(res[kab].studies) /\ Ascending(res[kba].studies)
           /\ res[kab].count = Len(res[kab].studies)
           /\ res[kba].count = Len(res[kba].studies)

\* C2: symmetry. When one request answered (A, B) and another (B, A) over
\* the same table, the a_not_b list of the first equals the b_not_a list of
\* the second, and the b_not_a list of the first the a_not_b list of the
\* second.
C2_Symmetry ==
    \A t, u \in Threads :
        (/\ Done200(t, "terms") /\ Done200(u, "terms")
         /\ th[u].term_a = th[t].term_b /\ th[u].term_b = th[t].term_a) =>
        LET here == th[t].response.body.results
            there == th[u].response.body.results
            kab == NotKey(th[t].term_a, th[t].term_b)
            kba == NotKey(th[t].term_b, th[t].term_a)
        IN /\ here[kab].studies = there[kab].studies
           /\ here[kba].studies = there[kba].studies

\* C2, for the lists the two queries of each request return (before the
\* response is built): the first request's a_not_b_results are the second's
\* b_not_a_results and conversely.
C2_SymmetryOfQueries ==
    \A t, u \in Threads :
        (/\ Done200(t, "terms") /\ Done200(u, "terms")
         /\ th[u].term_a = th[t].term_b /\ th[u].term_b = th[t].term_a) =>
        /\ th[t].a_not_b_results = th[u].b_not_a_results
        /\ th[t].b_not_a_results = th[u].a_not_b_results

\* C3: a coordinate string that is not three numeric components, given as
\* coords_a or coords_b, is answered with the error envelope and status
\* 400, and the request makes no get_engine call and executes no query.
C3_MalformedRejectedFirst ==
    \A t \in Threads :
        (th[t].endpoint = "coords"
           /\ (~Triple(th[t].coords_a) \/ ~Triple(th[t].coords_b))) =>
        /\ th[t].pc = "done"
        /\ th[t].response = [status |-> 400, body |-> [error |-> InvalidFormat]]
        /\ th[t].engine_calls = 0
        /\ th[t].executes = 0

\* C3 witness: the request "1_2" has been answered with status 400.
C3_Witness ==
    \E t \in Threads :
        /\ th[t].pc = "done" /\ th[t].endpoint = "coords"
        /\ th[t].coords_a = <<"1", "_", "2">>
        /\ Triple(th[t].coords_b)
        /\ th[t].response.status = 400

\* C4: a term that is blank once underscores are spaces, given as term_a
\* or term_b, is answered as a client error and no query is executed.
C4_BlankTermRejected ==
    \A t \in Threads :
        (th[t].endpoint = "terms" /\ (Blank(th[t].term_a) \/ Blank(th[t].term_b))) =>
        /\ th[t].executes = 0
        /\ th[t].pc = "done" => th[t].response.status = 400

\* C5: in both endpoints a failure raised by the store, whatever its type,
\* is answered with status 500; status 400 is given only to coordinate
\* strings that fail to parse.
C5_StoreFailureIs500 ==
    \A t \in Threads :
        (th[t].pc = "done" /\ th[t].response.status # 200) =>
        IF th[t].endpoint = "coords"
             /\ (~Triple(th[t].coords_a) \/ ~Triple(th[t].coords_b))
        THEN th[t].response.status = 400
        ELSE th[t].response.status = 500

\* C6: the results object of a successful dissociate_by_terms response has
\* two entries, one per direction.
C6_BothDirectionsPresent ==
    \A t \in Threads : Done200(t, "terms") =>
        Cardinality(DOMAIN th[t].response.body.results) = 2

C8_EchoNormalized ==
    \A t \in Threads : Done200(t, "terms") =>
        /\ th[t].response.body.query.term_a = Lower(Replace(th[t].term_a, "_", " "))
        /\ th[t].response.body.query.term_b = Lower(Replace(th[t].term_b, "_", " "))

\* C9: create_engine is executed at most once in the process, every
\* get_engine call returns the same handle, and a call that fails because
\* DB_URL is missing leaves the handle unset.
C9_EngineCreatedOnce ==
    /\ created <= 1
    /\ \A t, u \in Threads :
           (th[t].eng # None /\ th[u].eng # None) => th[t].eng = th[u].eng
    /\ DB_URL = NoUrl => _engine = None

\* C10: the two lists of one response come from one view of the table, so
\* no study id is in both, whatever other clients commit between the two
\* queries.
C10_OneSnapshot ==
    \A t \in Threads : Done200(t, "terms") =>
        Range(th[t].a_not_b_results) \cap Range(th[t].b_not_a_results) = {}

====
